---------------------------- MODULE Spec2Model ----------------------------
(***************************************************************************)
(* A model of the WhatsApp AI bot: the sliding-window rate limiter of      *)
(* utils/decorators.py, and the message / command / button handlers of     *)
(* bot.py with the admin commands of commands/admin.py.                    *)
(*                                                                         *)
(* Specifications                                                          *)
(*   SpecLimiter        one rate_limit configuration, calls one at a time  *)
(*   SpecSharedLimiter  two rate_limit-decorated functions with different   *)
(*                      parameters, sharing rate_limit_storage             *)
(*   SpecConcurrent     the wrapper run by several threads, one statement   *)
(*                      at a time                                          *)
(*   Spec               the bot: handle_message and handle_button_callback *)
(*                      run one event at a time against the database       *)
(*   SpecStats          record_daily_stats, one call at a time             *)
(*   SpecStatsConcurrent record_daily_stats run by several workers         *)
(*   SpecPipeline       the reply splitting of handle_file_message         *)
(*   SpecAICall         one call of an AI handler of commands/ai.py        *)
(*   SpecDelivery       handle_message statement by statement, several      *)
(*                      deliveries at once, with calls that raise          *)
(*   SpecRetry          one call of a wrapper made by retry                *)
(*   SpecCache          the wrapper of cache_result run by several threads *)
(***************************************************************************)
EXTENDS Integers, Sequences, FiniteSets, TLC

VARIABLES
    rate_limit_storage,  \* decorators.py:14  wa_id -> deque of admitted timestamps
    now,                 \* the clock datetime.now() reads (decorators.py:45)
    rl,                  \* outcome of the last call of a rate_limit wrapper
    admitLog,            \* history: per wa_id and timestamp, how many calls were let through to func
    thr,                 \* SpecConcurrent: each thread's position in the wrapper
    users,               \* table User (models.py:5), keyed by phone_number
    groups,              \* table Group (models.py:21), the group_ids that have a row
    messages,            \* table Message (models.py:36), a set of rows
    ai_requests,         \* table AIRequest (models.py:51), rows in insertion order
    out,                 \* what the last handled event did: replies, handlers run, sends
    bot_stats,           \* table BotStats (models.py:84), rows in insertion order
    today,               \* the date datetime.utcnow().date() reads (analytics.py:179)
    stats_call,          \* outcome of the last whole call of record_daily_stats
    job,                 \* SpecStatsConcurrent: each worker's position in record_daily_stats
    ai_text,             \* the text the AI backend returns when it answers
    ai_fault,            \* the AI backend call raises (a fault or a timeout)
    user_text,           \* the text of the user's message, or the name of the file sent
    extraction,          \* what the download and FileProcessor.process_file will do
    ai_call,             \* the AI handler that ran, for whom, and what the backend call gave
    reply_texts,         \* the messages that handler handed to reply_text, in order
    delivery,            \* SpecDelivery: each running handle_message call's position
    retry_call,          \* SpecRetry: one call of a wrapper made by retry (decorators.py:167)
    cache,               \* decorators.py:257  the entry of one cache_key, or none
    cache_call           \* SpecCache: each thread's position in the wrapper of cache_result

vars ==
    <<rate_limit_storage, now, rl, admitLog, thr, users, groups, messages, ai_requests, out,
      bot_stats, today, stats_call, job,
      ai_text, ai_fault, user_text, extraction, ai_call, reply_texts,
      delivery, retry_call, cache, cache_call>>

limiterVars == <<rate_limit_storage, now, rl, admitLog, thr>>
botVars == <<users, groups, messages, ai_requests, out>>
analyticsVars == <<bot_stats, today, stats_call, job>>
\* what the rate limiter and the message handlers leave alone
pipelineVars == <<ai_text, ai_fault, user_text, extraction, ai_call, reply_texts>>
\* the state of the specifications of single functions
utilVars == <<retry_call, cache, cache_call>>
stepVars == <<delivery, utilVars>>
\* what the decorators retry and cache_result leave alone
systemVars == <<limiterVars, botVars, analyticsVars, pipelineVars, delivery>>
restVars == <<analyticsVars, pipelineVars, stepVars>>

None == "None"

-----------------------------------------------------------------------------
(* Bounds *)

\* max_requests of the modelled decorator (Config.MAX_REQUESTS_PER_MINUTE, scaled down)
MaxRequests == 2
\* window_seconds of the modelled decorator (60 in the source, scaled down)
WindowSeconds == 2
\* the clock runs from 0 to MaxTime
MaxTime == 4
\* a second decorated function's max_requests and window_seconds
StrictRequests == 1
StrictWindow == 1
\* the AIRequest table is followed up to this many rows
MaxAIRequests == 1
\* dates are 0..MaxDate
MaxDate == 5
\* The lengths of the reply splitting of handle_file_message, scaled down so
\* that every text up to four chunks long can be enumerated. In the code
\* (ai.py:152-163) a reply longer than 4000 characters is split, the summary
\* is the first 15 lines, a chunk has 3500 characters and chunks[:3] are
\* looked at. The scaled lengths keep chunk plus part header within the
\* transport limit, as 3500 plus the header is within 4000.
TransportLimit == 8
ChunkSize == 4
SummaryLines == 3
ChunkCap == 3
\* the longest text the backend returns
MaxTextLen == 10
\* The caps of log_ai_request, scaled down: prompt[:1000] and response[:2000]
\* in the code (ai.py:195-196).
PromptCap == 2
ResponseCap == 3
\* the calls of one delivery that raise (database calls and replies)
MaxFaults == 2
\* the largest max_attempts, delay and backoff_factor a retry decorator is given
MaxAttempts == 4
MaxDelay == 2
MaxBackoff == 3
\* ttl_seconds of the modelled cache_result decorator (300 by default, scaled down)
TtlSeconds == 2

-----------------------------------------------------------------------------
(* Identities *)

AdminPhone == "admin"
Phones == {"admin", "u1", "u2"}
WaIds == {"u1", "u2"}
Threads == {"t1", "t2"}
\* the identity whose deque the threads of SpecConcurrent contend for
ConcurrentIds == {"u1"}

DefaultLimiter == [max_requests |-> MaxRequests, window_seconds |-> WindowSeconds]
StrictLimiter == [max_requests |-> StrictRequests, window_seconds |-> StrictWindow]

-----------------------------------------------------------------------------
(* The rate limiter, utils/decorators.py *)

RECURSIVE TrimOldOffByOne(_, _)
TrimOldOffByOne(q, cutoff_time) ==
    IF q # <<>> /\ Head(q) <= cutoff_time
    THEN TrimOldOffByOne(Tail(q), cutoff_time)
    ELSE q

\* while user_requests and user_requests[0] < cutoff_time: user_requests.popleft()
RECURSIVE TrimOld(_, _)
TrimOld(q, cutoff_time) ==
    IF q # <<>> /\ Head(q) < cutoff_time
    THEN TrimOld(Tail(q), cutoff_time)
    ELSE q

\* The wrapper's admission decision on the deque q at time t: the deque it
\* leaves and whether func is executed.
Admission(q, t, lim) ==
    LET cutoff_time == t - lim.window_seconds
        kept == TrimOld(q, cutoff_time)
    IN  IF Len(kept) >= lim.max_requests
        THEN [queue |-> kept, admitted |-> FALSE]
        ELSE [queue |-> Append(kept, t), admitted |-> TRUE]

NoCall == [seq |-> 0, user |-> None, lim |-> DefaultLimiter, at |-> 0,
           result |-> "none", executed |-> FALSE]

\* One whole call of a wrapper made by rate_limit(lim.max_requests,
\* lim.window_seconds); user_id is None when no argument is a Message or a
\* CallbackButton.
RateLimitedCall(user_id, lim) ==
    /\ IF user_id = None
       THEN /\ rl' = [seq |-> 1 - rl.seq, user |-> None, lim |-> lim, at |-> now,
                      result |-> "unidentified", executed |-> TRUE]
            /\ UNCHANGED <<rate_limit_storage, admitLog>>
       ELSE LET a == Admission(rate_limit_storage[user_id], now, lim)
            IN  /\ rate_limit_storage' = [rate_limit_storage EXCEPT ![user_id] = a.queue]
                /\ rl' = [seq |-> 1 - rl.seq, user |-> user_id, lim |-> lim, at |-> now,
                          result |-> IF a.admitted THEN "admitted" ELSE "rejected",
                          executed |-> a.admitted]
                /\ admitLog' = IF a.admitted
                               THEN [admitLog EXCEPT ![user_id][now] = @ + 1]
                               ELSE admitLog
    /\ UNCHANGED <<now, thr>>
    /\ UNCHANGED <<botVars, restVars>>

\* Time passes between calls.
Tick ==
    /\ now < MaxTime
    /\ now' = now + 1
    /\ UNCHANGED <<rate_limit_storage, rl, admitLog, thr>>
    /\ UNCHANGED <<botVars, restVars>>

CallDefault == \E u \in WaIds \cup {None} : RateLimitedCall(u, DefaultLimiter)
CallStrict == \E u \in WaIds : RateLimitedCall(u, StrictLimiter)

-----------------------------------------------------------------------------
(* The wrapper statement by statement, for threads that run it together *)

IdleThread == [pc |-> "idle", user |-> None, now |-> 0, result |-> "none"]

\* decorators.py:31-43: the caller is identified
Begin(t, u) ==
    /\ thr[t].pc = "idle"
    /\ thr' = [thr EXCEPT ![t] = [pc |-> "read_now", user |-> u, now |-> 0, result |-> "none"]]
    /\ UNCHANGED <<rate_limit_storage, now, rl, admitLog>>
    /\ UNCHANGED <<botVars, restVars>>

\* decorators.py:45-46: now = datetime.now()
ReadNow(t) ==
    /\ thr[t].pc = "read_now"
    /\ thr' = [thr EXCEPT ![t].now = now, ![t].pc = "trim_test"]
    /\ UNCHANGED <<rate_limit_storage, now, rl, admitLog>>
    /\ UNCHANGED <<botVars, restVars>>

\* decorators.py:50: the loop test
TrimTest(t) ==
    /\ thr[t].pc = "trim_test"
    /\ LET q == rate_limit_storage[thr[t].user]
       IN  thr' = [thr EXCEPT ![t].pc =
                    IF q # <<>> /\ Head(q) < thr[t].now - DefaultLimiter.window_seconds
                    THEN "trim_pop" ELSE "check"]
    /\ UNCHANGED <<rate_limit_storage, now, rl, admitLog>>
    /\ UNCHANGED <<botVars, restVars>>

\* decorators.py:51: popleft(), which raises IndexError on a deque another
\* thread has emptied since the test
TrimPop(t) ==
    /\ thr[t].pc = "trim_pop"
    /\ LET q == rate_limit_storage[thr[t].user]
       IN  IF q = <<>>
           THEN /\ thr' = [thr EXCEPT ![t].pc = "done", ![t].result = "error"]
                /\ UNCHANGED rate_limit_storage
           ELSE /\ rate_limit_storage' = [rate_limit_storage EXCEPT ![thr[t].user] = Tail(q)]
                /\ thr' = [thr EXCEPT ![t].pc = "trim_test"]
    /\ UNCHANGED <<now, rl, admitLog>>
    /\ UNCHANGED <<botVars, restVars>>

\* decorators.py:54-64: the limit check
CheckLimit(t) ==
    /\ thr[t].pc = "check"
    /\ thr' = IF Len(rate_limit_storage[thr[t].user]) >= DefaultLimiter.max_requests
              THEN [thr EXCEPT ![t].pc = "done", ![t].result = "rejected"]
              ELSE [thr EXCEPT ![t].pc = "record"]
    /\ UNCHANGED <<rate_limit_storage, now, rl, admitLog>>
    /\ UNCHANGED <<botVars, restVars>>

\* decorators.py:67-70: the request is recorded and func runs
Record(t) ==
    /\ thr[t].pc = "record"
    /\ rate_limit_storage' = [rate_limit_storage EXCEPT ![thr[t].user] = Append(@, thr[t].now)]
    /\ admitLog' = [admitLog EXCEPT ![thr[t].user][thr[t].now] = @ + 1]
    /\ thr' = [thr EXCEPT ![t].pc = "done", ![t].result = "admitted"]
    /\ UNCHANGED <<now, rl>>
    /\ UNCHANGED <<botVars, restVars>>

\* the wrapper returns
Return(t) ==
    /\ thr[t].pc = "done"
    /\ thr' = [thr EXCEPT ![t] = IdleThread]
    /\ UNCHANGED <<rate_limit_storage, now, rl, admitLog>>
    /\ UNCHANGED <<botVars, restVars>>

-----------------------------------------------------------------------------
(* The database and the inbound events, models.py and bot.py *)

\* Config.BOT_ADMIN_PHONE is AdminPhone. A User row; phone_number is the key.
\* The timestamp columns created_at and last_seen are read by no handler and
\* are left out.
NoUser == [exists |-> FALSE, name |-> None, is_admin |-> FALSE, is_banned |-> FALSE]

\* The display name the transport reports for a phone.
ProfileName(p) == IF p = "admin" THEN "Root" ELSE IF p = "u1" THEN "Ann" ELSE "Bob"

\* The identifiers of the messages a phone sends. An identifier belongs to
\* one message of one sender; the transport may deliver it again.
MsgIdsOf(p) == IF p = "admin" THEN {"wamid.A"} ELSE IF p = "u1" THEN {"wamid.1"} ELSE {"wamid.2"}
\* The group_id a delivered message carries. pywa's Message has from_user and
\* no attribute from_, so hasattr(message, 'from_') (bot.py:80, group.py:17)
\* is false for every message the transport delivers.
MessageGroups == {None}

\* The command tokens: the two lists of handle_command (bot.py:144,146),
\* help and start, and "info" for a token that is in none of them.
AdminCommands == {"admin", "broadcast", "ban", "unban", "stats"}
GroupCommands == {"kick", "ban", "mute", "unmute", "promote", "demote"}
\* The tokens the modelled senders type; kick stands for the five group
\* tokens that are in no other list.
Tokens == {"help", "start", "info", "kick"} \cup AdminCommands

\* What follows the token in the text: nothing, or the argument. ban and
\* unban read it as the target's phone number, broadcast as the text to
\* send, the group commands as the user they name; the other commands do not
\* read it. "Ann" is a target typed by display name instead of by phone.
ArgsOf(token) ==
    IF token \in {"ban", "unban"} THEN Phones \cup {"Ann", None}
    ELSE IF token \in {"broadcast"} \cup GroupCommands THEN {"u1", None}
    ELSE {None}

\* An inbound message. A text is plain or starts with Config.BOT_PREFIX, and
\* then has a token and an argument; a message of another type has no text.
\* group is the group_id of a message that carries one. media is what the
\* download and the extraction of an image or a document will do.
Message(id, type, command, token, arg, group, media) ==
    [id |-> id, type |-> type, command |-> command, token |-> token, arg |-> arg,
     group |-> group, media |-> media]

TextMessages(sender) ==
    {Message(id, "text", FALSE, None, None, g, None) :
        id \in MsgIdsOf(sender), g \in MessageGroups}
    \cup
    UNION {{Message(id, "text", TRUE, token, arg, g, None) :
                id \in MsgIdsOf(sender), arg \in ArgsOf(token), g \in MessageGroups} :
            token \in Tokens}
MediaMessages(sender) ==
    {Message(id, "image", FALSE, None, None, g, media) :
        id \in MsgIdsOf(sender), g \in MessageGroups, media \in {"ok", "download_failed"}}
    \cup
    {Message(id, "document", FALSE, None, None, g, media) :
        id \in MsgIdsOf(sender), g \in MessageGroups,
        media \in {"ok", "unsupported", "download_failed", "extract_failed"}}
    \cup
    {Message(id, "other", FALSE, None, None, g, None) :
        id \in MsgIdsOf(sender), g \in MessageGroups}
Messages(sender) == TextMessages(sender) \cup MediaMessages(sender)

\* callback_data of the buttons
ButtonData == {"help", "start", "info", "admin_stats", "admin_panel", "admin_ban"}

\* What a handler did: the User table it leaves, its replies in order, the
\* handlers that ran, the messages sent with client.send_message, the counts
\* a broadcast reports, the AIRequest rows it added.
Effect(us, replies, handlers, sent) ==
    [users |-> us, replies |-> replies, handlers |-> handlers, sent |-> sent,
     sent_count |-> 0, failed_count |-> 0, ai |-> <<>>]

\* bot.py:39-57, with is_admin written on every contact
GetOrCreateUserRefreshesAdmin(us, phone_number, name) ==
    [us EXCEPT ![phone_number] =
        [exists |-> TRUE, name |-> IF @.name = None THEN name ELSE @.name,
         is_admin |-> ~@.exists /\ (phone_number = AdminPhone),
         is_banned |-> @.is_banned]]

\* bot.py:39-57
GetOrCreateUser(us, phone_number, name) ==
    IF ~us[phone_number].exists
    THEN [us EXCEPT ![phone_number] =
            [exists |-> TRUE, name |-> name,
             is_admin |-> (phone_number = AdminPhone), is_banned |-> FALSE]]
    ELSE IF name # None /\ us[phone_number].name = None
         THEN [us EXCEPT ![phone_number].name = name]
         ELSE us

\* User.query.filter_by(phone_number=target_phone).first(): the key of the
\* row found, or None
FindByPhone(us, target_phone) ==
    IF target_phone \in Phones /\ us[target_phone].exists THEN target_phone ELSE None

-----------------------------------------------------------------------------
(* The admin commands, commands/admin.py *)

\* admin.py:148-194. has_text: the message has a text attribute (a button
\* callback has none).
HandleBanUserNoAdminCheck(us, arg, has_text) ==
    LET target == FindByPhone(us, arg)
    IN  IF ~has_text THEN Effect(us, <<"no_phone_provided">>, {"handle_ban_user"}, {})
        ELSE IF arg = None THEN Effect(us, <<"usage_ban">>, {"handle_ban_user"}, {})
        ELSE IF target = None THEN Effect(us, <<"not_found">>, {"handle_ban_user"}, {})
        ELSE IF us[target].is_banned
             THEN Effect(us, <<"already_banned">>, {"handle_ban_user"}, {})
        ELSE Effect([us EXCEPT ![target].is_banned = TRUE], <<"ban_ok">>,
                    {"handle_ban_user"}, {[to |-> target, kind |-> "ban_notice"]})

HandleBanUserRenotifies(us, arg, has_text) ==
    LET target == FindByPhone(us, arg)
    IN  IF ~has_text THEN Effect(us, <<"no_phone_provided">>, {"handle_ban_user"}, {})
        ELSE IF arg = None THEN Effect(us, <<"usage_ban">>, {"handle_ban_user"}, {})
        ELSE IF target = None THEN Effect(us, <<"not_found">>, {"handle_ban_user"}, {})
        ELSE IF us[target].is_admin
             THEN Effect(us, <<"cannot_ban_admin">>, {"handle_ban_user"}, {})
        ELSE Effect([us EXCEPT ![target].is_banned = TRUE], <<"ban_ok">>,
                    {"handle_ban_user"}, {[to |-> target, kind |-> "ban_notice"]})

HandleBanUserNoCommit(us, arg, has_text) ==
    LET target == FindByPhone(us, arg)
    IN  IF ~has_text THEN Effect(us, <<"no_phone_provided">>, {"handle_ban_user"}, {})
        ELSE IF arg = None THEN Effect(us, <<"usage_ban">>, {"handle_ban_user"}, {})
        ELSE IF target = None THEN Effect(us, <<"not_found">>, {"handle_ban_user"}, {})
        ELSE IF us[target].is_admin
             THEN Effect(us, <<"cannot_ban_admin">>, {"handle_ban_user"}, {})
        ELSE IF us[target].is_banned
             THEN Effect(us, <<"already_banned">>, {"handle_ban_user"}, {})
        ELSE Effect(us, <<"ban_ok">>,
                    {"handle_ban_user"}, {[to |-> target, kind |-> "ban_notice"]})

HandleBanUser(us, arg, has_text) ==
    LET target == FindByPhone(us, arg)
    IN  IF ~has_text THEN Effect(us, <<"no_phone_provided">>, {"handle_ban_user"}, {})
        ELSE IF arg = None THEN Effect(us, <<"usage_ban">>, {"handle_ban_user"}, {})
        ELSE IF target = None THEN Effect(us, <<"not_found">>, {"handle_ban_user"}, {})
        ELSE IF us[target].is_admin
             THEN Effect(us, <<"cannot_ban_admin">>, {"handle_ban_user"}, {})
        ELSE IF us[target].is_banned
             THEN Effect(us, <<"already_banned">>, {"handle_ban_user"}, {})
        ELSE Effect([us EXCEPT ![target].is_banned = TRUE], <<"ban_ok">>,
                    {"handle_ban_user"}, {[to |-> target, kind |-> "ban_notice"]})

\* admin.py:196-238
HandleUnbanUser(us, arg, has_text) ==
    LET target == FindByPhone(us, arg)
    IN  IF ~has_text THEN Effect(us, <<"no_phone_provided">>, {"handle_unban_user"}, {})
        ELSE IF arg = None THEN Effect(us, <<"usage_unban">>, {"handle_unban_user"}, {})
        ELSE IF target = None THEN Effect(us, <<"not_found">>, {"handle_unban_user"}, {})
        ELSE IF ~us[target].is_banned
             THEN Effect(us, <<"not_banned">>, {"handle_unban_user"}, {})
        ELSE Effect([us EXCEPT ![target].is_banned = FALSE], <<"unban_ok">>,
                    {"handle_unban_user"}, {[to |-> target, kind |-> "unban_notice"]})

\* admin.py:92-146 without the filter of l.108: every user is a target
HandleBroadcastToBanned(us, sender, arg, has_text, fail) ==
    LET active == {p \in Phones : us[p].exists}
        targets == active \ {sender}
    IN  IF ~has_text THEN Effect(us, <<"no_broadcast_content">>, {"handle_broadcast"}, {})
        ELSE IF arg = None THEN Effect(us, <<"usage_broadcast">>, {"handle_broadcast"}, {})
        ELSE IF active = {} THEN Effect(us, <<"no_active_users">>, {"handle_broadcast"}, {})
        ELSE [Effect(us, <<"broadcast_complete">>, {"handle_broadcast"},
                     {[to |-> p, kind |-> "broadcast"] : p \in targets})
                EXCEPT !.sent_count = Cardinality(targets \ fail),
                       !.failed_count = Cardinality(targets \cap fail)]

\* admin.py:92-146. fail: the phones to which client.send_message raises.
HandleBroadcast(us, sender, arg, has_text, fail) ==
    LET active == {p \in Phones : us[p].exists /\ ~us[p].is_banned}
        targets == active \ {sender}
    IN  IF ~has_text THEN Effect(us, <<"no_broadcast_content">>, {"handle_broadcast"}, {})
        ELSE IF arg = None THEN Effect(us, <<"usage_broadcast">>, {"handle_broadcast"}, {})
        ELSE IF active = {} THEN Effect(us, <<"no_active_users">>, {"handle_broadcast"}, {})
        ELSE [Effect(us, <<"broadcast_complete">>, {"handle_broadcast"},
                     {[to |-> p, kind |-> "broadcast"] : p \in targets})
                EXCEPT !.sent_count = Cardinality(targets \ fail),
                       !.failed_count = Cardinality(targets \cap fail)]

WithHandler(e, h) == [e EXCEPT !.handlers = @ \cup {h}]

\* admin.py:11-42
HandleAdminCommandsNoGate(us, sender, command, arg, has_text, fail) ==
    WithHandler(
        IF command = "admin" THEN Effect(us, <<"admin_panel">>, {"show_admin_panel"}, {})
        ELSE IF command = "broadcast" THEN HandleBroadcast(us, sender, arg, has_text, fail)
        ELSE IF command = "ban" THEN HandleBanUser(us, arg, has_text)
        ELSE IF command = "unban" THEN HandleUnbanUser(us, arg, has_text)
        ELSE IF command = "stats" THEN Effect(us, <<"bot_stats">>, {"show_bot_stats"}, {})
        ELSE Effect(us, <<"unknown_admin_command">>, {}, {}),
        "handle_admin_commands")

HandleAdminCommands(us, sender, command, arg, has_text, fail) ==
    WithHandler(
        IF ~us[sender].is_admin THEN Effect(us, <<"access_denied">>, {}, {})
        ELSE IF command = "admin" THEN Effect(us, <<"admin_panel">>, {"show_admin_panel"}, {})
        ELSE IF command = "broadcast" THEN HandleBroadcast(us, sender, arg, has_text, fail)
        ELSE IF command = "ban" THEN HandleBanUser(us, arg, has_text)
        ELSE IF command = "unban" THEN HandleUnbanUser(us, arg, has_text)
        ELSE IF command = "stats" THEN Effect(us, <<"bot_stats">>, {"show_bot_stats"}, {})
        ELSE Effect(us, <<"unknown_admin_command">>, {}, {}),
        "handle_admin_commands")

\* group.py:21-32
GroupSubHandler(command) ==
    CASE command = "kick" -> "handle_kick_user"
      [] command = "ban" -> "handle_ban_from_group"
      [] command = "mute" -> "handle_mute_user"
      [] command = "unmute" -> "handle_unmute_user"
      [] command = "promote" -> "handle_promote_user"
      [] OTHER -> "handle_demote_user"

\* commands/group.py:9-38. The sub-handlers (group.py:54-202) only reply: with
\* the usage when the text names no user, with a description of the action
\* otherwise.
HandleGroupCommands(us, sender, command, arg, in_group) ==
    WithHandler(
        IF ~us[sender].is_admin THEN Effect(us, <<"access_denied">>, {}, {})
        ELSE IF ~in_group THEN Effect(us, <<"groups_only">>, {}, {})
        ELSE IF command \in GroupCommands
             THEN Effect(us, <<IF arg = None THEN "group_usage" ELSE "group_action">>,
                         {GroupSubHandler(command)}, {})
        ELSE Effect(us, <<"unknown_group_command">>, {}, {}),
        "handle_group_commands")

-----------------------------------------------------------------------------
(* The AI handlers, commands/ai.py. The reply is the backend's answer or its *)
(* fallback string; either is logged and sent the same way.                  *)

AIRow(user_id, request_type) == [user_id |-> user_id, request_type |-> request_type]

\* ai.py:14-51
HandleAiChat(us, sender, name) ==
    LET us1 == GetOrCreateUser(us, sender, name)
    IN  IF us1[sender].is_banned THEN Effect(us1, <<>>, {"handle_ai_chat"}, {})
        ELSE [Effect(us1, <<"thinking", "ai_response">>, {"handle_ai_chat"}, {})
                EXCEPT !.ai = <<AIRow(sender, "chat")>>]

\* ai.py:53-93
HandleImageMessage(us, sender, name, media) ==
    LET us1 == GetOrCreateUser(us, sender, name)
    IN  IF us1[sender].is_banned THEN Effect(us1, <<>>, {"handle_image_message"}, {})
        ELSE IF media = "download_failed"
             THEN Effect(us1, <<"analyzing_image", "download_failed">>,
                         {"handle_image_message"}, {})
        ELSE [Effect(us1, <<"analyzing_image", "image_analysis">>,
                     {"handle_image_message"}, {})
                EXCEPT !.ai = <<AIRow(sender, "image_analysis")>>]

\* ai.py:95-182. media "extract_failed" is a file for which process_file returns
\* a text that starts with the failure marker; "ok" is any other content.
HandleFileMessage(us, sender, name, media) ==
    LET us1 == GetOrCreateUser(us, sender, name)
    IN  IF us1[sender].is_banned THEN Effect(us1, <<>>, {"handle_file_message"}, {})
        ELSE IF media = "unsupported"
             THEN Effect(us1, <<"unsupported_file">>, {"handle_file_message"}, {})
        ELSE IF media = "download_failed"
             THEN Effect(us1, <<"processing_file", "download_failed">>,
                         {"handle_file_message"}, {})
        ELSE IF media = "extract_failed"
             THEN Effect(us1, <<"processing_file", "extraction_error">>,
                         {"handle_file_message"}, {})
        ELSE [Effect(us1, <<"processing_file", "file_analysis">>,
                     {"handle_file_message"}, {})
                EXCEPT !.ai = <<AIRow(sender, "file_analysis")>>]

-----------------------------------------------------------------------------
(* The handlers of bot.py *)

\* bot.py:132-159 with the group list (l.146) tested before the admin list
HandleCommandGroupFirst(us, sender, name, m, fail) ==
    LET us1 == GetOrCreateUser(us, sender, name)
    IN  IF m.token = "help" THEN Effect(us1, <<"help">>, {"handle_help_command"}, {})
        ELSE IF m.token = "start"
             THEN Effect(us1, <<"welcome">>, {"handle_start_command"}, {})
        ELSE IF m.token \in GroupCommands
             THEN HandleGroupCommands(us1, sender, m.token, m.arg, m.group # None)
        ELSE IF m.token \in AdminCommands
             THEN HandleAdminCommands(us1, sender, m.token, m.arg, TRUE, fail)
        ELSE Effect(us1, <<"unknown_command">>, {}, {})

\* bot.py:132-159
HandleCommand(us, sender, name, m, fail) ==
    LET us1 == GetOrCreateUser(us, sender, name)
    IN  IF m.token = "help" THEN Effect(us1, <<"help">>, {"handle_help_command"}, {})
        ELSE IF m.token = "start"
             THEN Effect(us1, <<"welcome">>, {"handle_start_command"}, {})
        ELSE IF m.token \in AdminCommands
             THEN HandleAdminCommands(us1, sender, m.token, m.arg, TRUE, fail)
        ELSE IF m.token \in GroupCommands
             THEN HandleGroupCommands(us1, sender, m.token, m.arg, m.group # None)
        ELSE Effect(us1, <<"unknown_command">>, {}, {})

\* bot.py:59-91: the tables log_message leaves and its replies. Of a Message
\* row the key message_id and the owner are kept; no handler reads the other
\* columns. The commit
\* of a row whose message_id is already in the table (models.py:39, unique)
\* raises, and the exception is logged and dropped (bot.py:90).
LogMessage(us, gs, msgs, sender, name, m) ==
    LET us1 == GetOrCreateUser(us, sender, name)
        gs1 == IF m.group # None THEN gs \cup {m.group} ELSE gs
        row == [message_id |-> m.id, user_id |-> sender]
    IN  IF us1[sender].is_banned
        THEN [users |-> us1, groups |-> gs, messages |-> msgs, replies |-> <<"banned_short">>]
        ELSE [users |-> us1, groups |-> gs1,
              messages |-> IF \E r \in msgs : r.message_id = m.id
                           THEN msgs ELSE msgs \cup {row},
              replies |-> <<>>]

\* The state of the message router (spec 4.3) handle_message reaches
Route(m) ==
    IF m.command THEN "COMMAND"
    ELSE IF m.type = "text" THEN "AI_TEXT"
    ELSE IF m.type = "image" THEN "AI_IMAGE"
    ELSE IF m.type = "document" THEN "AI_FILE"
    ELSE "UNSUPPORTED"

\* bot.py:107-123: log_message, then the dispatch on the text and the type
Dispatch(us, gs, msgs, sender, name, m, fail) ==
    LET log == LogMessage(us, gs, msgs, sender, name, m)
        e == IF m.command THEN HandleCommand(log.users, sender, name, m, fail)
             ELSE IF m.type = "text" THEN HandleAiChat(log.users, sender, name)
             ELSE IF m.type = "image" THEN HandleImageMessage(log.users, sender, name, m.media)
             ELSE IF m.type = "document" THEN HandleFileMessage(log.users, sender, name, m.media)
             ELSE Effect(log.users, <<"send_text_or_help">>, {}, {})
    IN  [effect |-> [e EXCEPT !.replies = log.replies \o @],
         groups |-> log.groups, messages |-> log.messages, route |-> Route(m)]

HandleMessageResultNoBanCheck(us, sender, name, m, fail) ==
    Dispatch(GetOrCreateUser(us, sender, name), groups, messages, sender, name, m, fail)

\* bot.py:93-126: what handle_message does with message m of sender
HandleMessageResult(us, sender, name, m, fail) ==
    LET us1 == GetOrCreateUser(us, sender, name)
    IN  IF us1[sender].is_banned
        THEN [effect |-> Effect(us1, <<"banned">>, {}, {}),
              groups |-> groups, messages |-> messages, route |-> "BANNED_REJECTED"]
        ELSE Dispatch(us1, groups, messages, sender, name, m, fail)

\* bot.py:161-180
HandleButtonResult(us, sender, name, data) ==
    LET us1 == GetOrCreateUser(us, sender, name)
    IN  IF data = "help" THEN Effect(us1, <<"help">>, {"handle_help_command"}, {})
        ELSE IF data = "start" THEN Effect(us1, <<"welcome">>, {"handle_start_command"}, {})
        ELSE IF data \in {"admin_stats", "admin_panel", "admin_ban"}
             THEN IF us1[sender].is_admin
                  THEN HandleAdminCommands(us1, sender,
                           IF data = "admin_stats" THEN "stats"
                           ELSE IF data = "admin_panel" THEN "panel" ELSE "ban",
                           None, FALSE, {})
                  ELSE Effect(us1, <<"admin_access_required">>, {}, {})
        ELSE Effect(us1, <<"button_processed">>, {}, {})

NoEvent ==
    [event |-> "none", sender |-> None, type |-> None, media |-> None,
     token |-> None, arg |-> None, route |-> None,
     replies |-> <<>>, handlers |-> {}, sent |-> {}, sent_count |-> 0, failed_count |-> 0]

Outcome(event, sender, type, media, token, arg, route, e) ==
    [event |-> event, sender |-> sender, type |-> type, media |-> media,
     token |-> token, arg |-> arg, route |-> route,
     replies |-> e.replies, handlers |-> e.handlers, sent |-> e.sent,
     sent_count |-> e.sent_count, failed_count |-> e.failed_count]

\* The sets of phones to which client.send_message may raise while sender's
\* message m is handled (only a broadcast with a text sends to others and
\* counts its failures).
SendFailures(sender, m) ==
    IF m.token = "broadcast" /\ m.arg # None THEN SUBSET (Phones \ {sender}) ELSE {{}}

\* The transport delivers message m of sender to handle_message.
HandleMessage(sender, name, m, fail) ==
    \E r \in {HandleMessageResult(users, sender, name, m, fail)} :
        /\ Len(ai_requests) + Len(r.effect.ai) <= MaxAIRequests
        /\ users' = r.effect.users
        /\ groups' = r.groups
        /\ messages' = r.messages
        /\ ai_requests' = ai_requests \o r.effect.ai
        /\ out' = Outcome("message", sender, m.type, m.media, m.token, m.arg, r.route, r.effect)
        /\ UNCHANGED <<limiterVars, restVars>>

\* The transport delivers a button callback of sender to handle_button_callback.
HandleButtonCallback(sender, name, data) ==
    \E e \in {HandleButtonResult(users, sender, name, data)} :
        /\ users' = e.users
        /\ out' = Outcome("button", sender, None, None, data, None, None, e)
        /\ UNCHANGED <<groups, messages, ai_requests>>
        /\ UNCHANGED <<limiterVars, restVars>>

-----------------------------------------------------------------------------
(* The daily statistics, analytics.py *)

Workers == {"w1", "w2"}

\* The five metrics of record_daily_stats (analytics.py:187-191), in the
\* order the rows are added.
Metrics == <<"total_users", "total_messages", "ai_requests", "files_processed", "active_groups">>

\* analytics.py:13-74: the counts the rows store. handle_file_message adds a
\* FileProcessing row together with each file_analysis AIRequest row
\* (ai.py:145-146); every Group row is active (models.py:27).
MetricValue(metric_name) ==
    CASE metric_name = "total_users" -> Cardinality({p \in Phones : users[p].exists})
      [] metric_name = "total_messages" -> Cardinality(messages)
      [] metric_name = "ai_requests" -> Len(ai_requests)
      [] metric_name = "files_processed" ->
            Cardinality({i \in DOMAIN ai_requests :
                            ai_requests[i].request_type = "file_analysis"})
      [] metric_name = "active_groups" -> Cardinality(groups)

\* BotStats.query.filter_by(date=d).first() (analytics.py:182) finds a row
ExistingStats(rows, d) == \E i \in DOMAIN rows : rows[i].date = d

\* analytics.py:186-197: the five rows of date d, added and committed
StatsRows(d) ==
    [i \in DOMAIN Metrics |->
        [metric_name |-> Metrics[i], metric_value |-> MetricValue(Metrics[i]), date |-> d]]

NoStatsCall == [seq |-> 0, date |-> 0, result |-> "none"]

\* analytics.py:176-203, a call that wrote without the check of l.182-184
RecordDailyStatsUnchecked ==
    /\ bot_stats' = bot_stats \o StatsRows(today)
    /\ stats_call' = [seq |-> 1 - stats_call.seq, date |-> today, result |-> "recorded"]
    /\ UNCHANGED <<today, job>>
    /\ UNCHANGED <<limiterVars, botVars, pipelineVars, stepVars>>

\* analytics.py:176-203, one whole call with no other call running
RecordDailyStats ==
    /\ IF ExistingStats(bot_stats, today)
       THEN /\ UNCHANGED bot_stats
            /\ stats_call' = [seq |-> 1 - stats_call.seq, date |-> today, result |-> "skipped"]
       ELSE /\ bot_stats' = bot_stats \o StatsRows(today)
            /\ stats_call' = [seq |-> 1 - stats_call.seq, date |-> today, result |-> "recorded"]
    /\ UNCHANGED <<today, job>>
    /\ UNCHANGED <<limiterVars, botVars, pipelineVars, stepVars>>

\* midnight passes
NextDay ==
    /\ today < MaxDate
    /\ today' = today + 1
    /\ UNCHANGED <<bot_stats, stats_call, job>>
    /\ UNCHANGED <<limiterVars, botVars, pipelineVars, stepVars>>

\* The steps of one call when several calls run at once, each in its own
\* database session.
IdleJob == [pc |-> "idle", today |-> 0]

\* analytics.py:179
StatsReadDate(w) ==
    /\ job[w].pc = "idle"
    /\ job' = [job EXCEPT ![w] = [pc |-> "check", today |-> today]]
    /\ UNCHANGED <<bot_stats, today, stats_call>>
    /\ UNCHANGED <<limiterVars, botVars, pipelineVars, stepVars>>

\* analytics.py:182-184
StatsCheck(w) ==
    /\ job[w].pc = "check"
    /\ job' = [job EXCEPT ![w].pc =
                  IF ExistingStats(bot_stats, job[w].today) THEN "idle" ELSE "insert"]
    /\ UNCHANGED <<bot_stats, today, stats_call>>
    /\ UNCHANGED <<limiterVars, botVars, pipelineVars, stepVars>>

\* analytics.py:186-198. BotStats has no unique constraint (models.py:84-89),
\* so the commit succeeds whatever rows are there.
StatsCommit(w) ==
    /\ job[w].pc = "insert"
    /\ bot_stats' = bot_stats \o StatsRows(job[w].today)
    /\ job' = [job EXCEPT ![w].pc = "idle"]
    /\ UNCHANGED <<today, stats_call>>
    /\ UNCHANGED <<limiterVars, botVars, pipelineVars, stepVars>>

-----------------------------------------------------------------------------
(* The AI pipeline with its texts, gemini_service.py, file_processor.py and *)
(* commands/ai.py. A text is a sequence of characters; a fixed piece of     *)
(* text the code produces is one element per line of it.                    *)

Chars == {"a", "\n"}
TextsUpTo(n) == UNION {[1..k -> Chars] : k \in 0..n}
Texts == TextsUpTo(MaxTextLen)

Min(a, b) == IF a < b THEN a ELSE b

\* s[i:j] of Python, 0-based and half-open
Slice(s, i, j) == SubSeq(s, i + 1, Min(j, Len(s)))

\* s.split('\n')
RECURSIVE SplitLines(_)
SplitLines(s) ==
    IF \A i \in DOMAIN s : s[i] # "\n" THEN <<s>>
    ELSE LET k == CHOOSE i \in DOMAIN s : s[i] = "\n" /\ \A j \in 1..(i - 1) : s[j] # "\n"
         IN  <<SubSeq(s, 1, k - 1)>> \o SplitLines(SubSeq(s, k + 1, Len(s)))

\* '\n'.join(lines)
RECURSIVE JoinLines(_)
JoinLines(lines) ==
    IF lines = <<>> THEN <<>>
    ELSE IF Len(lines) = 1 THEN lines[1]
    ELSE lines[1] \o <<"\n">> \o JoinLines(Tail(lines))

\* What a call of AIService gives its caller: a text, or an exception.
Returned(text) == [raised |-> FALSE, text |-> text]
Raised == [raised |-> TRUE, text |-> <<>>]

\* The fixed string each function returns when its backend call raises
\* (gemini_service.py:95, 126, 157).
FaultText(kind) ==
    CASE kind = "chat" -> <<"Sorry, I'm experiencing technical difficulties.">>
      [] kind = "file" -> <<"Error analyzing file.">>
      [] kind = "image" -> <<"Error analyzing image.">>

\* a call that lets the backend's exception through
ChatResponseRaises(fault, text) == IF fault THEN Raised ELSE Returned(text)

\* gemini_service.py:68-95. response.text or the first fixed string (l.91);
\* the second fixed string when the call raises (l.93-95).
ChatResponse(fault, text) ==
    IF fault THEN Returned(FaultText("chat"))
    ELSE IF text = <<>> THEN Returned(<<"I'm having trouble generating a response.">>)
    ELSE Returned(text)

\* gemini_service.py:97-126
AnalyzeFileContent(fault, text) ==
    IF fault THEN Returned(FaultText("file"))
    ELSE IF text = <<>> THEN Returned(<<"I couldn't analyze this file.">>)
    ELSE Returned(text)

\* gemini_service.py:128-157
AnalyzeImage(fault, text) ==
    IF fault THEN Returned(FaultText("image"))
    ELSE IF text = <<>> THEN Returned(<<"I couldn't analyze this image.">>)
    ELSE Returned(text)

\* What the download and the extraction do with a document: the file name
\* has no supported extension, the download gives nothing, the file is over
\* Config.MAX_FILE_SIZE, process_file raises, a per-format extractor fails to
\* read or parse the file, or the content is extracted.
Extractions ==
    {"unsupported", "download_failed", "too_large", "process_error", "extractor_error", "ok"}

\* the cross mark the error texts of process_file start with
FailureMarker == "(x)"

\* file_processor.py:285-320: the text process_file returns. A per-format
\* extractor catches its own exception and returns "Error reading PDF: ..."
\* (file_processor.py:68-70, and the same in the other extractors), which
\* process_file passes on as content (l.316).
ProcessFile(outcome) ==
    CASE outcome = "unsupported" -> <<FailureMarker, "Unsupported file type">>
      [] outcome = "too_large" -> <<FailureMarker, "File too large. Maximum size is 16MB.">>
      [] outcome = "process_error" -> <<FailureMarker, "Error processing file">>
      [] outcome = "extractor_error" -> <<"Error reading PDF">>
      [] OTHER -> <<"Text Document Analysis", "\n", "a">>

\* content.startswith(marker), ai.py:136
StartsWithMarker(content) == content # <<>> /\ content[1] = FailureMarker

\* a row that keeps the texts whole
LogAiRequestUntruncated(user_id, request_type, prompt, response) ==
    [user_id |-> user_id, request_type |-> request_type,
     prompt |-> prompt, response |-> response]

\* ai.py:189-202: the AIRequest row log_ai_request adds
LogAiRequest(user_id, request_type, prompt, response) ==
    [user_id |-> user_id, request_type |-> request_type,
     prompt |-> Slice(prompt, 0, PromptCap), response |-> Slice(response, 0, ResponseCap)]

\* ai.py:149 f"*File Analysis: {filename}*\n\n", ai.py:81 "*Image Analysis*\n\n"
FileHeader == <<"File Analysis: filename", "\n", "\n">>
ImageHeader == <<"Image Analysis", "\n", "\n">>
\* ai.py:155 "\n\n*[Content truncated for WhatsApp]*"
TruncationMarker == <<"\n", "\n", "[Content truncated for WhatsApp]">>
\* ai.py:163 f"*Part {i+1}*\n\n", i the 0-based index of the chunk
PartHeader(i) ==
    <<(CASE i = 0 -> "Part 1" [] i = 1 -> "Part 2" [] i = 2 -> "Part 3" [] OTHER -> "Part n"),
      "\n", "\n">>

\* ai.py:159: [response_text[i:i+3500] for i in range(0, len(response_text), 3500)]
RECURSIVE ChunksFrom(_, _)
ChunksFrom(response_text, i) ==
    IF i >= Len(response_text) THEN <<>>
    ELSE <<Slice(response_text, i, i + ChunkSize)>> \o ChunksFrom(response_text, i + ChunkSize)

\* ai.py:151-165: the messages handed to reply_text for response_text
SplitReply(response_text) ==
    IF Len(response_text) > TransportLimit
    THEN LET summary_lines == Slice(SplitLines(response_text), 0, SummaryLines)
             summary == JoinLines(summary_lines) \o TruncationMarker
             chunks == ChunksFrom(response_text, 0)
             looked == Slice(chunks, 0, ChunkCap)
             parts == [k \in 1..(Len(looked) - 1) |-> PartHeader(k) \o looked[k + 1]]
         IN  <<summary>> \o parts
    ELSE <<response_text>>

NoAICall ==
    [kind |-> "none", user |-> None, called |-> FALSE, raised |-> FALSE,
     prompt |-> <<>>, response |-> <<>>]

\* What an AI handler did for user u: it called the backend with a prompt to
\* log and got result r, or it returned before the call.
AICalled(kind, u, prompt, r) ==
    [kind |-> kind, user |-> u, called |-> TRUE, raised |-> r.raised,
     prompt |-> prompt, response |-> r.text]
AINotCalled(kind, u) == [NoAICall EXCEPT !.kind = kind, !.user = u]

\* ai.py:14-51, handle_ai_chat for a user who is not banned. An exception of
\* the call ends in the handler's except branch (l.49-51).
AiChatReply(u) ==
    /\ ai_call.kind = "none"
    /\ IF user_text = <<>>
       THEN /\ ai_call' = AINotCalled("chat", u)
            /\ reply_texts' = <<<<"Send me a text message to start chatting!">>>>
            /\ UNCHANGED ai_requests
       ELSE \E r \in {ChatResponse(ai_fault, ai_text)} :
            /\ ai_call' = AICalled("chat", u, user_text, r)
            /\ IF r.raised
               THEN /\ reply_texts' = <<<<"Thinking...">>, <<"Sorry, I'm having trouble thinking.">>>>
                    /\ UNCHANGED ai_requests
               ELSE /\ reply_texts' = <<<<"Thinking...">>, r.text>>
                    /\ ai_requests' =
                          Append(ai_requests, LogAiRequest(u, "chat", user_text, r.text))
    /\ UNCHANGED <<ai_text, ai_fault, user_text, extraction>>
    /\ UNCHANGED <<users, groups, messages, out>>
    /\ UNCHANGED <<limiterVars, analyticsVars, stepVars>>

\* ai.py:53-93, handle_image_message for a user who is not banned; user_text
\* is message.image.filename
ImageReply(u) ==
    /\ ai_call.kind = "none"
    /\ IF extraction = "download_failed"
       THEN /\ ai_call' = AINotCalled("image", u)
            /\ reply_texts' = <<<<"Analyzing your image...">>, <<"Failed to download image.">>>>
            /\ UNCHANGED ai_requests
       ELSE \E r \in {AnalyzeImage(ai_fault, ai_text)} :
            /\ ai_call' = AICalled("image", u, <<"Image: ">> \o user_text, r)
            /\ IF r.raised
               THEN /\ reply_texts' = <<<<"Analyzing your image...">>, <<"Error analyzing image.">>>>
                    /\ UNCHANGED ai_requests
               ELSE /\ reply_texts' = <<<<"Analyzing your image...">>, ImageHeader \o r.text>>
                    /\ ai_requests' =
                          Append(ai_requests,
                                 LogAiRequest(u, "image_analysis", <<"Image: ">> \o user_text, r.text))
    /\ UNCHANGED <<ai_text, ai_fault, user_text, extraction>>
    /\ UNCHANGED <<users, groups, messages, out>>
    /\ UNCHANGED <<limiterVars, analyticsVars, stepVars>>

\* ai.py:95-182, handle_file_message for a user who is not banned; user_text
\* is document.filename
FileReply(u) ==
    /\ ai_call.kind = "none"
    /\ IF extraction = "unsupported"
       THEN /\ ai_call' = AINotCalled("file", u)
            /\ reply_texts' = <<<<"Unsupported file type. Supported formats: ...">>>>
            /\ UNCHANGED ai_requests
       ELSE IF extraction = "download_failed"
       THEN /\ ai_call' = AINotCalled("file", u)
            /\ reply_texts' = <<<<"Processing file: filename">>, <<"Failed to download file.">>>>
            /\ UNCHANGED ai_requests
       ELSE IF StartsWithMarker(ProcessFile(extraction))
       THEN /\ ai_call' = AINotCalled("file", u)
            /\ reply_texts' = <<<<"Processing file: filename">>, ProcessFile(extraction)>>
            /\ UNCHANGED ai_requests
       ELSE \E r \in {AnalyzeFileContent(ai_fault, ai_text)} :
            /\ ai_call' = AICalled("file", u, <<"File: ">> \o user_text, r)
            /\ IF r.raised
               THEN /\ reply_texts' = <<<<"Processing file: filename">>, <<"Error processing file.">>>>
                    /\ UNCHANGED ai_requests
               ELSE /\ reply_texts' =
                          <<<<"Processing file: filename">>>> \o SplitReply(FileHeader \o r.text)
                    /\ ai_requests' =
                          Append(ai_requests,
                                 LogAiRequest(u, "file_analysis", <<"File: ">> \o user_text, r.text))
    /\ UNCHANGED <<ai_text, ai_fault, user_text, extraction>>
    /\ UNCHANGED <<users, groups, messages, out>>
    /\ UNCHANGED <<limiterVars, analyticsVars, stepVars>>

-----------------------------------------------------------------------------
(* handle_message, one statement at a time. Several deliveries run at once, *)
(* each in its own database session, while the admin bans and unbans the    *)
(* sender. A database call or a reply may raise.                            *)

\* the webhook calls that run at once
Deliveries == {"d1", "d2"}
\* the sender of the delivered messages
Sender == "u1"
\* The identifiers of the sender's messages; two deliveries of one identifier
\* are a redelivery by the transport.
DeliveryIds == {"wamid.1", "wamid.3"}
\* what is delivered: the help command, a plain text, a type that is neither
\* text, image nor document
DeliveryKinds == {"command", "text", "other"}

IdleDelivery ==
    [pc |-> "idle", id |-> None, kind |-> None, faults |-> 0,
     banned_at_check |-> FALSE, banned_at_log |-> FALSE, db_fault |-> FALSE,
     attempted |-> FALSE, escaped |-> FALSE, started |-> None, started_banned |-> FALSE]

\* db.session.add(msg); db.session.commit() (bot.py:88-89): the commit of a
\* second row with a message_id the table holds raises (models.py:39,
\* unique=True) and log_message drops the exception (bot.py:90-91). id is
\* the autoincrement primary key (models.py:38).
InsertMessageNoUnique(msgs, message_id, user_id) ==
    msgs \cup {[id |-> Cardinality(msgs) + 1, message_id |-> message_id, user_id |-> user_id]}

InsertMessage(msgs, message_id, user_id) ==
    IF \E r \in msgs : r.message_id = message_id
    THEN msgs
    ELSE msgs \cup {[id |-> Cardinality(msgs) + 1, message_id |-> message_id,
                     user_id |-> user_id]}

\* bot.py:110-123: where handle_message goes after log_message
AfterLog(kind) ==
    CASE kind = "command" -> "cmd_lookup"
      [] kind = "text" -> "ai_lookup"
      [] OTHER -> "reply_other"

\* The reply_text calls: where control goes when the call returns and when
\* it raises. The reply of log_message (bot.py:67) is inside its try, whose
\* except drops the exception (bot.py:90-91); "raised" is an exception that
\* leaves handle_message.
ReplyPoints ==
    {"reply_banned", "log_reply_banned", "reply_other", "help_reply", "help_except",
     "cmd_except", "ai_thinking", "ai_reply", "ai_except", "except"}

AfterReply(pc, kind) ==
    CASE pc = "reply_banned" -> "done"
      [] pc = "log_reply_banned" -> AfterLog(kind)
      [] pc = "reply_other" -> "done"
      [] pc = "help_reply" -> "done"
      [] pc = "help_except" -> "done"
      [] pc = "cmd_except" -> "done"
      [] pc = "ai_thinking" -> "ai_call"
      [] pc = "ai_reply" -> "done"
      [] pc = "ai_except" -> "done"
      [] pc = "except" -> "done"

AfterReplyRaised(pc, kind) ==
    CASE pc = "reply_banned" -> "except"
      [] pc = "log_reply_banned" -> AfterLog(kind)
      [] pc = "reply_other" -> "except"
      [] pc = "help_reply" -> "help_except"
      [] pc = "help_except" -> "cmd_except"
      [] pc = "cmd_except" -> "except"
      [] pc = "ai_thinking" -> "ai_except"
      [] pc = "ai_reply" -> "ai_except"
      [] pc = "ai_except" -> "except"
      [] pc = "except" -> "raised"

\* a statement of delivery d may still raise
MayFault(d) == delivery[d].faults < MaxFaults

Step(d, pc) == [delivery EXCEPT ![d].pc = pc]
Faulted(d, pc) == [delivery EXCEPT ![d].pc = pc, ![d].faults = @ + 1]

\* The transport calls handle_message for a message of the sender.
Deliver(d, id, kind) ==
    /\ delivery[d].pc = "idle"
    /\ delivery' = [delivery EXCEPT ![d] = [IdleDelivery EXCEPT !.pc = "lookup", !.id = id,
                                                           !.kind = kind]]
    /\ UNCHANGED <<users, groups, messages, ai_requests, out>>
    /\ UNCHANGED <<limiterVars, analyticsVars, pipelineVars, utilVars>>

\* bot.py:96-105: get_or_create_user and the test of is_banned on the row it
\* returned
Lookup(d) ==
    /\ delivery[d].pc = "lookup"
    /\ users' = GetOrCreateUser(users, Sender, ProfileName(Sender))
    /\ delivery' = [delivery EXCEPT
            ![d].pc = IF users'[Sender].is_banned THEN "reply_banned" ELSE "log_lookup",
            ![d].banned_at_check = users'[Sender].is_banned]
    /\ UNCHANGED <<groups, messages, ai_requests, out>>
    /\ UNCHANGED <<limiterVars, analyticsVars, pipelineVars, utilVars>>

\* bot.py:96 raises: the except of bot.py:124
LookupRaises(d) ==
    /\ delivery[d].pc = "lookup"
    /\ MayFault(d)
    /\ delivery' = [Faulted(d, "except") EXCEPT ![d].db_fault = TRUE]
    /\ UNCHANGED <<users, groups, messages, ai_requests, out>>
    /\ UNCHANGED <<limiterVars, analyticsVars, pipelineVars, utilVars>>

\* bot.py:63-68: log_message reads the user again and tests is_banned
LogLookup(d) ==
    /\ delivery[d].pc = "log_lookup"
    /\ users' = GetOrCreateUser(users, Sender, ProfileName(Sender))
    /\ delivery' = [delivery EXCEPT
            ![d].pc = IF users'[Sender].is_banned THEN "log_reply_banned" ELSE "log_insert",
            ![d].banned_at_log = users'[Sender].is_banned]
    /\ UNCHANGED <<groups, messages, ai_requests, out>>
    /\ UNCHANGED <<limiterVars, analyticsVars, pipelineVars, utilVars>>

\* bot.py:70-89: the row is added and committed
LogInsertSkipped(d) ==
    /\ delivery[d].pc = "log_insert"
    /\ delivery' = Step(d, AfterLog(delivery[d].kind))
    /\ UNCHANGED <<users, groups, messages, ai_requests, out>>
    /\ UNCHANGED <<limiterVars, analyticsVars, pipelineVars, utilVars>>

LogInsert(d) ==
    /\ delivery[d].pc = "log_insert"
    /\ messages' = InsertMessage(messages, delivery[d].id, Sender)
    /\ delivery' = Step(d, AfterLog(delivery[d].kind))
    /\ UNCHANGED <<users, groups, ai_requests, out>>
    /\ UNCHANGED <<limiterVars, analyticsVars, pipelineVars, utilVars>>

\* a database call of log_message raises (bot.py:63 or 89); the except of
\* bot.py:90-91 logs it and handle_message goes on
LogRaises(d) ==
    /\ delivery[d].pc \in {"log_lookup", "log_insert"}
    /\ MayFault(d)
    /\ delivery' = [Faulted(d, AfterLog(delivery[d].kind)) EXCEPT ![d].db_fault = TRUE]
    /\ UNCHANGED <<users, groups, messages, ai_requests, out>>
    /\ UNCHANGED <<limiterVars, analyticsVars, pipelineVars, utilVars>>

\* bot.py:137-141: handle_command reads the user, tests nothing and calls
\* handle_help_command
CmdLookup(d) ==
    /\ delivery[d].pc = "cmd_lookup"
    /\ users' = GetOrCreateUser(users, Sender, ProfileName(Sender))
    /\ delivery' = [delivery EXCEPT ![d].pc = "help_reply", ![d].started = "command",
                                    ![d].started_banned = users'[Sender].is_banned]
    /\ UNCHANGED <<groups, messages, ai_requests, out>>
    /\ UNCHANGED <<limiterVars, analyticsVars, pipelineVars, utilVars>>

\* bot.py:137 raises, outside the try of handle_command: the except of
\* bot.py:124
CmdLookupRaises(d) ==
    /\ delivery[d].pc = "cmd_lookup"
    /\ MayFault(d)
    /\ delivery' = Faulted(d, "except")
    /\ UNCHANGED <<users, groups, messages, ai_requests, out>>
    /\ UNCHANGED <<limiterVars, analyticsVars, pipelineVars, utilVars>>

\* help.py:11-57 raises before the reply: the except of help.py:66
HandlerRaises(d) ==
    /\ delivery[d].pc = "help_reply"
    /\ MayFault(d)
    /\ delivery' = Faulted(d, "help_except")
    /\ UNCHANGED <<users, groups, messages, ai_requests, out>>
    /\ UNCHANGED <<limiterVars, analyticsVars, pipelineVars, utilVars>>

\* ai.py:17-19: handle_ai_chat reads the user and returns when is_banned
AiLookup(d) ==
    /\ delivery[d].pc = "ai_lookup"
    /\ users' = GetOrCreateUser(users, Sender, ProfileName(Sender))
    /\ delivery' = Step(d, IF users'[Sender].is_banned THEN "done" ELSE "ai_thinking")
    /\ UNCHANGED <<groups, messages, ai_requests, out>>
    /\ UNCHANGED <<limiterVars, analyticsVars, pipelineVars, utilVars>>

\* ai.py:17 raises: the except of ai.py:49
AiLookupRaises(d) ==
    /\ delivery[d].pc = "ai_lookup"
    /\ MayFault(d)
    /\ delivery' = Faulted(d, "ai_except")
    /\ UNCHANGED <<users, groups, messages, ai_requests, out>>
    /\ UNCHANGED <<limiterVars, analyticsVars, pipelineVars, utilVars>>

\* ai.py:37-41: the backend is called and the request is logged
AiCall(d) ==
    /\ delivery[d].pc = "ai_call"
    /\ ai_requests' = Append(ai_requests, LogAiRequest(Sender, "chat", <<"a">>, <<"a">>))
    /\ delivery' = [delivery EXCEPT ![d].pc = "ai_reply", ![d].started = "ai",
                                    ![d].started_banned = users[Sender].is_banned]
    /\ UNCHANGED <<users, groups, messages, out>>
    /\ UNCHANGED <<limiterVars, analyticsVars, pipelineVars, utilVars>>

\* a reply_text call returns
Reply(d) ==
    /\ delivery[d].pc \in ReplyPoints
    /\ delivery' = [delivery EXCEPT ![d].pc = AfterReply(@, delivery[d].kind),
                                    ![d].attempted = TRUE]
    /\ UNCHANGED <<users, groups, messages, ai_requests, out>>
    /\ UNCHANGED <<limiterVars, analyticsVars, pipelineVars, utilVars>>

\* a reply_text call raises
ReplyRaises(d) ==
    /\ delivery[d].pc \in ReplyPoints
    /\ MayFault(d)
    /\ LET to == AfterReplyRaised(delivery[d].pc, delivery[d].kind)
       IN  delivery' = [delivery EXCEPT
                ![d].pc = IF to = "raised" THEN "done" ELSE to,
                ![d].faults = @ + 1,
                ![d].attempted = TRUE,
                ![d].escaped = (to = "raised")]
    /\ UNCHANGED <<users, groups, messages, ai_requests, out>>
    /\ UNCHANGED <<limiterVars, analyticsVars, pipelineVars, utilVars>>

\* admin.py:177-178 and 221-222: the commit of an admin's ban or unban of the
\* sender
CommitBan(banned) ==
    /\ users[Sender].exists
    /\ users[Sender].is_banned # banned
    /\ users' = [users EXCEPT ![Sender].is_banned = banned]
    /\ UNCHANGED <<groups, messages, ai_requests, out, delivery>>
    /\ UNCHANGED <<limiterVars, analyticsVars, pipelineVars, utilVars>>

-----------------------------------------------------------------------------
(* The retry decorator, utils/decorators.py:156-190 *)

RECURSIVE Pow(_, _)
Pow(b, n) == IF n = 0 THEN 1 ELSE b * Pow(b, n - 1)

NoRetry ==
    [max_attempts |-> 0, delay |-> 0, backoff_factor |-> 0, pc |-> "none", attempt |-> 0,
     current_delay |-> 0, calls |-> 0, sleeps |-> <<>>, last_exception |-> 0, result |-> 0]

\* decorators.py:168-171: the wrapper is entered. The k-th call of func
\* returns the value k or raises the exception k.
RetryStart(max_attempts, delay, backoff_factor) ==
    [max_attempts |-> max_attempts, delay |-> delay, backoff_factor |-> backoff_factor,
     pc |-> "call", attempt |-> 0, current_delay |-> delay, calls |-> 0, sleeps |-> <<>>,
     last_exception |-> 0, result |-> 0]

\* decorators.py:173: func returns and the wrapper returns its value
RetryCallReturns ==
    /\ retry_call.pc = "call"
    /\ retry_call' = [retry_call EXCEPT !.calls = @ + 1, !.result = retry_call.calls + 1,
                                        !.pc = "returned"]
    /\ UNCHANGED <<cache, cache_call>>
    /\ UNCHANGED systemVars

\* decorators.py:174-184 with the sleep before the test of the last attempt
RetryCallRaisesSleepsFirst ==
    /\ retry_call.pc = "call"
    /\ LET e == retry_call.calls + 1
       IN  retry_call' =
             [retry_call EXCEPT
                !.calls = e, !.last_exception = e,
                !.sleeps = Append(@, retry_call.current_delay),
                !.current_delay = @ * retry_call.backoff_factor,
                !.pc = IF retry_call.attempt = retry_call.max_attempts - 1
                       THEN "raised" ELSE "call",
                !.attempt = IF retry_call.attempt = retry_call.max_attempts - 1
                            THEN @ ELSE @ + 1]
    /\ UNCHANGED <<cache, cache_call>>
    /\ UNCHANGED systemVars

\* decorators.py:174-184: func raises; the last attempt raises it again, any
\* other attempt sleeps current_delay, multiplies it and goes round the loop
RetryCallRaises ==
    /\ retry_call.pc = "call"
    /\ LET e == retry_call.calls + 1
       IN  retry_call' =
             IF retry_call.attempt = retry_call.max_attempts - 1
             THEN [retry_call EXCEPT !.calls = e, !.last_exception = e, !.pc = "raised"]
             ELSE [retry_call EXCEPT
                      !.calls = e, !.last_exception = e,
                      !.sleeps = Append(@, retry_call.current_delay),
                      !.current_delay = @ * retry_call.backoff_factor,
                      !.attempt = @ + 1]
    /\ UNCHANGED <<cache, cache_call>>
    /\ UNCHANGED systemVars

-----------------------------------------------------------------------------
(* The cache_result decorator, utils/decorators.py:250-283, statement by    *)
(* statement, for threads that call the wrapper with one cache_key. func    *)
(* returns the time at which it ran, or raises.                             *)

NoEntry == [present |-> FALSE, result |-> 0, timestamp |-> 0]
Entry(result, timestamp) == [present |-> TRUE, result |-> result, timestamp |-> timestamp]

IdleCacheCall == [pc |-> "idle", result |-> 0, timestamp |-> 0, age |-> 0, outcome |-> "none"]

\* decorators.py:261-263: the wrapper is entered and the key is built
CacheBegin(t) ==
    /\ cache_call[t].pc = "idle"
    /\ cache_call' = [cache_call EXCEPT ![t] = [IdleCacheCall EXCEPT !.pc = "test"]]
    /\ UNCHANGED <<retry_call, cache>>
    /\ UNCHANGED systemVars

\* decorators.py:266: if cache_key in cache
CacheTest(t) ==
    /\ cache_call[t].pc = "test"
    /\ cache_call' = [cache_call EXCEPT ![t].pc = IF cache.present THEN "read" ELSE "exec"]
    /\ UNCHANGED <<retry_call, cache>>
    /\ UNCHANGED systemVars

\* decorators.py:267: result, timestamp = cache[cache_key], a KeyError when
\* another thread has deleted the entry since the test
CacheRead(t) ==
    /\ cache_call[t].pc = "read"
    /\ cache_call' =
          IF cache.present
          THEN [cache_call EXCEPT ![t].pc = "check_age", ![t].result = cache.result,
                                  ![t].timestamp = cache.timestamp]
          ELSE [cache_call EXCEPT ![t].pc = "done", ![t].outcome = "error"]
    /\ UNCHANGED <<retry_call, cache>>
    /\ UNCHANGED systemVars

\* decorators.py:268-270 with <= for <
CacheCheckAgeInclusive(t) ==
    /\ cache_call[t].pc = "check_age"
    /\ cache_call' =
          IF now - cache_call[t].timestamp <= TtlSeconds
          THEN [cache_call EXCEPT ![t].pc = "done", ![t].outcome = "hit",
                                  ![t].age = now - cache_call[t].timestamp]
          ELSE [cache_call EXCEPT ![t].pc = "del"]
    /\ UNCHANGED <<retry_call, cache>>
    /\ UNCHANGED systemVars

\* decorators.py:268-270: if time.time() - timestamp < ttl_seconds: return result
CacheCheckAge(t) ==
    /\ cache_call[t].pc = "check_age"
    /\ cache_call' =
          IF now - cache_call[t].timestamp < TtlSeconds
          THEN [cache_call EXCEPT ![t].pc = "done", ![t].outcome = "hit",
                                  ![t].age = now - cache_call[t].timestamp]
          ELSE [cache_call EXCEPT ![t].pc = "del"]
    /\ UNCHANGED <<retry_call, cache>>
    /\ UNCHANGED systemVars

\* decorators.py:273: del cache[cache_key], a KeyError when another thread
\* has deleted the entry already
CacheDel(t) ==
    /\ cache_call[t].pc = "del"
    /\ IF cache.present
       THEN /\ cache' = NoEntry
            /\ cache_call' = [cache_call EXCEPT ![t].pc = "exec"]
       ELSE /\ UNCHANGED cache
            /\ cache_call' = [cache_call EXCEPT ![t].pc = "done", ![t].outcome = "error"]
    /\ UNCHANGED retry_call
    /\ UNCHANGED systemVars

\* decorators.py:276: func returns
CacheExecReturns(t) ==
    /\ cache_call[t].pc = "exec"
    /\ cache_call' = [cache_call EXCEPT ![t].pc = "store", ![t].result = now]
    /\ UNCHANGED <<retry_call, cache>>
    /\ UNCHANGED systemVars

\* decorators.py:276: func raises and the exception leaves the wrapper
CacheExecRaises(t) ==
    /\ cache_call[t].pc = "exec"
    /\ cache_call' = [cache_call EXCEPT ![t].pc = "done", ![t].outcome = "func_raised"]
    /\ UNCHANGED <<retry_call, cache>>
    /\ UNCHANGED systemVars

\* decorators.py:277-280: the result is stored with the time of the store
CacheStore(t) ==
    /\ cache_call[t].pc = "store"
    /\ cache' = Entry(cache_call[t].result, now)
    /\ cache_call' = [cache_call EXCEPT ![t].pc = "done", ![t].outcome = "miss"]
    /\ UNCHANGED retry_call
    /\ UNCHANGED systemVars

\* the wrapper has returned or raised
CacheReturn(t) ==
    /\ cache_call[t].pc = "done"
    /\ cache_call' = [cache_call EXCEPT ![t] = IdleCacheCall]
    /\ UNCHANGED <<retry_call, cache>>
    /\ UNCHANGED systemVars

-----------------------------------------------------------------------------
(* Initial state: the process has started, the database is empty *)

InitTables ==
    /\ rate_limit_storage = [u \in WaIds |-> <<>>]
    /\ now = 0
    /\ rl = NoCall
    /\ admitLog = [u \in WaIds |-> [t \in 0..MaxTime |-> 0]]
    /\ thr = [t \in Threads |-> IdleThread]
    /\ users = [p \in Phones |-> NoUser]
    /\ groups = {}
    /\ messages = {}
    /\ out = NoEvent
    /\ bot_stats = <<>>
    /\ today = 0
    /\ stats_call = NoStatsCall
    /\ job = [w \in Workers |-> IdleJob]
    /\ delivery = [d \in Deliveries |-> IdleDelivery]
    /\ cache = NoEntry
    /\ cache_call = [t \in Threads |-> IdleCacheCall]

Init ==
    /\ retry_call = NoRetry
    /\ InitTables
    /\ ai_requests = <<>>
    /\ ai_text = <<>>
    /\ ai_fault = FALSE
    /\ user_text = <<>>
    /\ extraction = "ok"
    /\ ai_call = NoAICall
    /\ reply_texts = <<>>

\* A user's file has been downloaded and read, and the AI backend is about to
\* answer with a text of any length.
InitPipeline ==
    /\ InitTables
    /\ retry_call = NoRetry
    /\ ai_requests = <<>>
    /\ ai_text \in Texts
    /\ ai_fault = FALSE
    /\ user_text = <<"a">>
    /\ extraction = "ok"
    /\ ai_call = NoAICall
    /\ reply_texts = <<>>

\* A function decorated with retry(max_attempts, delay, backoff_factor) is
\* called.
InitRetry ==
    /\ InitTables
    /\ ai_requests = <<>>
    /\ ai_text = <<>>
    /\ ai_fault = FALSE
    /\ user_text = <<>>
    /\ extraction = "ok"
    /\ ai_call = NoAICall
    /\ reply_texts = <<>>
    /\ \E max_attempts \in 1..MaxAttempts, delay \in 0..MaxDelay, backoff_factor \in 1..MaxBackoff :
            retry_call = RetryStart(max_attempts, delay, backoff_factor)

\* an AIRequest row of an earlier request
EarlierRow == LogAiRequest("u2", "chat", <<"a">>, <<"a">>)

\* A user has sent a text, an image or a document: the backend will answer
\* or fault, the download and the extraction will work or fail, and the
\* AIRequest table may hold a row already.
InitAICall ==
    /\ InitTables
    /\ retry_call = NoRetry
    /\ ai_requests \in {<<>>, <<EarlierRow>>}
    /\ ai_text \in TextsUpTo(ResponseCap + 1)
    /\ ai_fault \in BOOLEAN
    /\ user_text \in TextsUpTo(PromptCap + 1)
    /\ extraction \in Extractions
    /\ ai_call = NoAICall
    /\ reply_texts = <<>>

NextLimiter ==
    \/ CallDefault
    \/ Tick

NextSharedLimiter ==
    \/ CallDefault
    \/ CallStrict
    \/ Tick

NextConcurrent ==
    \/ \E t \in Threads, u \in ConcurrentIds : Begin(t, u)
    \/ \E t \in Threads : ReadNow(t)
    \/ \E t \in Threads : TrimTest(t)
    \/ \E t \in Threads : TrimPop(t)
    \/ \E t \in Threads : CheckLimit(t)
    \/ \E t \in Threads : Record(t)
    \/ \E t \in Threads : Return(t)
    \/ Tick

Next ==
    \/ \E p \in Phones : \E m \in Messages(p) :
          \E fail \in SendFailures(p, m) : HandleMessage(p, ProfileName(p), m, fail)
    \/ \E p \in Phones, d \in ButtonData :
          HandleButtonCallback(p, ProfileName(p), d)

NextDelivery ==
    \/ \E d \in Deliveries, id \in DeliveryIds, kind \in DeliveryKinds : Deliver(d, id, kind)
    \/ \E d \in Deliveries : Lookup(d)
    \/ \E d \in Deliveries : LookupRaises(d)
    \/ \E d \in Deliveries : LogLookup(d)
    \/ \E d \in Deliveries : LogInsert(d)
    \/ \E d \in Deliveries : LogRaises(d)
    \/ \E d \in Deliveries : CmdLookup(d)
    \/ \E d \in Deliveries : CmdLookupRaises(d)
    \/ \E d \in Deliveries : HandlerRaises(d)
    \/ \E d \in Deliveries : AiLookup(d)
    \/ \E d \in Deliveries : AiLookupRaises(d)
    \/ \E d \in Deliveries : AiCall(d)
    \/ \E d \in Deliveries : Reply(d)
    \/ \E d \in Deliveries : ReplyRaises(d)
    \/ \E banned \in BOOLEAN : CommitBan(banned)

NextCache ==
    \/ \E t \in Threads : CacheBegin(t)
    \/ \E t \in Threads : CacheTest(t)
    \/ \E t \in Threads : CacheRead(t)
    \/ \E t \in Threads : CacheCheckAge(t)
    \/ \E t \in Threads : CacheDel(t)
    \/ \E t \in Threads : CacheExecReturns(t)
    \/ \E t \in Threads : CacheExecRaises(t)
    \/ \E t \in Threads : CacheStore(t)
    \/ \E t \in Threads : CacheReturn(t)
    \/ Tick

NextRetry ==
    \/ RetryCallReturns
    \/ RetryCallRaises

NextStats ==
    \/ RecordDailyStats
    \/ NextDay

NextStatsConcurrent ==
    \/ \E w \in Workers : StatsReadDate(w)
    \/ \E w \in Workers : StatsCheck(w)
    \/ \E w \in Workers : StatsCommit(w)
    \/ NextDay

NextPipeline ==
    \/ \E u \in WaIds : AiChatReply(u)
    \/ \E u \in WaIds : ImageReply(u)
    \/ \E u \in WaIds : FileReply(u)

Spec == Init /\ [][Next]_vars
SpecLimiter == Init /\ [][NextLimiter]_vars
SpecSharedLimiter == Init /\ [][NextSharedLimiter]_vars
SpecConcurrent == Init /\ [][NextConcurrent]_vars
SpecStats == Init /\ [][NextStats]_vars
SpecStatsConcurrent == Init /\ [][NextStatsConcurrent]_vars
SpecPipeline == InitPipeline /\ [][NextPipeline]_vars
SpecAICall == InitAICall /\ [][NextPipeline]_vars
SpecDelivery == Init /\ [][NextDelivery]_vars
SpecRetry == InitRetry /\ [][NextRetry]_vars
SpecCache == Init /\ [][NextCache]_vars

-----------------------------------------------------------------------------
(* Claims about the rate limiter *)

\* How many calls of u were let through with a timestamp in lo..hi.
RECURSIVE AdmittedBetween(_, _, _)
AdmittedBetween(u, lo, hi) ==
    IF lo > hi THEN 0
    ELSE (IF lo \in 0..MaxTime THEN admitLog[u][lo] ELSE 0) + AdmittedBetween(u, lo + 1, hi)

\* The calls admitted before the last call that still lie in its trailing
\* window [at - window_seconds, at].
PriorInWindow ==
    AdmittedBetween(rl.user, rl.at - rl.lim.window_seconds, rl.at)
        - (IF rl.result = "admitted" THEN 1 ELSE 0)

\* C1: with one window W and one maximum N, and calls at non-decreasing
\* times, a call is rejected exactly when N previously admitted calls still
\* lie inside its trailing window [now-W, now], and is admitted exactly when
\* fewer than N do; an admitted call older than now-W does not count.
C1_WindowProperty ==
    /\ rl.result = "rejected" => PriorInWindow = rl.lim.max_requests
    /\ rl.result = "admitted" => PriorInWindow < rl.lim.max_requests

\* C1 witness: a call is admitted although more than N calls of the identity
\* were admitted before it or with it: the oldest has rolled off the window.
C1_Witness ==
    /\ rl.result = "admitted"
    /\ AdmittedBetween(rl.user, 0, MaxTime) > rl.lim.max_requests
    /\ PriorInWindow = rl.lim.max_requests - 1

\* C2: a rejected call changes nothing: the identity's deque after the call
\* is the deque before it, and the wrapped function is not executed; for
\* every sequence of calls of the rate_limit-decorated functions, which share
\* rate_limit_storage.
C2_RejectionChangesNothing ==
    [][(rl'.seq # rl.seq /\ rl'.result = "rejected")
          => (rate_limit_storage' = rate_limit_storage /\ ~rl'.executed)]_vars

\* C3: under any interleaving of concurrent calls for one identity, the
\* number of admitted timestamps inside one window [s, s+W] never exceeds
\* the maximum.
C3_NeverOverMaxInWindow ==
    \A u \in WaIds : \A s \in 0..MaxTime :
        AdmittedBetween(u, s, s + DefaultLimiter.window_seconds)
            <= DefaultLimiter.max_requests

-----------------------------------------------------------------------------
(* Claims about the bot. In a step of Spec, out' describes the event the    *)
(* step handles, the unprimed variables the database before it.             *)

AdminSubHandlers ==
    {"show_admin_panel", "handle_broadcast", "handle_ban_user", "handle_unban_user",
     "show_bot_stats"}
Dispatched == {"COMMAND", "AI_TEXT", "AI_IMAGE", "AI_FILE"}

\* C4: every message handle_message routes to the command dispatcher or to an
\* AI handler has first passed a rate-limit admission for its sender, which
\* leaves the sender's deque of admitted timestamps non-empty.
C4_RateLimitGatesRouting ==
    (out.event = "message" /\ out.route \in Dispatched
        /\ out.sender \in DOMAIN rate_limit_storage)
        => rate_limit_storage[out.sender] # <<>>

\* C5: a message of any type, command or not, of a sender whose is_banned is
\* true when handle_message starts gets the banned reply and nothing else:
\* no handler runs, no Message row and no AIRequest row is created.
C5_BanGating ==
    [][(out'.event = "message" /\ users[out'.sender].is_banned)
          => /\ out'.replies = <<"banned">>
             /\ out'.handlers = {}
             /\ messages' = messages
             /\ ai_requests' = ai_requests]_vars

\* C5 witness: a banned sender, none of whose messages is in the Message
\* table, has sent a command and got the banned reply.
C5_Witness ==
    /\ out.event = "message"
    /\ out.token # None
    /\ users[out.sender].is_banned
    /\ out.replies = <<"banned">>
    /\ \A r \in messages : r.user_id # out.sender

\* C6: a button callback of a banned user runs no handler and produces only
\* a rejection (the banned reply or a denial of access).
C6_BannedButtonRejected ==
    [][(out'.event = "button" /\ users[out'.sender].is_banned)
          => /\ out'.handlers = {}
             /\ out'.replies \in {<<"banned">>, <<"access_denied">>,
                                  <<"admin_access_required">>}]_vars

\* The step changes no is_banned flag, sends nothing and runs no admin
\* sub-handler.
NoModeration ==
    /\ \A p \in Phones : users'[p].is_banned = users[p].is_banned
    /\ out'.sent = {}
    /\ out'.handlers \cap AdminSubHandlers = {}

\* The step handles an admin command sent as a message by a non-admin.
NonAdminAdminCommand ==
    /\ out'.event = "message"
    /\ out'.token \in AdminCommands
    /\ ~users'[out'.sender].is_admin

\* C7, as claimed: a non-admin invoking admin, broadcast, ban, unban or stats
\* always receives the access-denied reply, and nothing is mutated.
C7_NonAdminAlwaysDenied ==
    [][NonAdminAdminCommand
          => (out'.replies = <<"access_denied">> /\ NoModeration)]_vars

\* C7, amended: a non-admin sending admin, broadcast, ban, unban or stats as
\* a command message receives the access-denied reply when not banned and
\* the banned reply when banned; in both cases no is_banned flag changes,
\* nothing is sent and no admin sub-handler runs.
C7_AdminGating ==
    [][NonAdminAdminCommand
          => /\ out'.replies = IF users[out'.sender].is_banned
                               THEN <<"banned">> ELSE <<"access_denied">>
             /\ NoModeration]_vars

\* C7 witness: a non-admin has sent ban for an existing user who is neither
\* banned nor admin, and got the access-denied reply.
C7_Witness ==
    /\ out.event = "message"
    /\ out.token = "ban"
    /\ ~users[out.sender].is_admin
    /\ out.replies = <<"access_denied">>
    /\ out.arg \in Phones
    /\ users[out.arg].exists /\ ~users[out.arg].is_banned /\ ~users[out.arg].is_admin

\* The step handles command token sent as a message by an admin, naming an
\* existing user.
AdminCommandOn(token) ==
    /\ out'.event = "message"
    /\ out'.token = token
    /\ users'[out'.sender].is_admin
    /\ out'.arg \in Phones
    /\ users[out'.arg].exists

\* The step leaves the target's row and every is_banned flag as they were
\* and sends nothing.
TargetUntouched ==
    /\ users'[out'.arg] = users[out'.arg]
    /\ \A p \in Phones : users'[p].is_banned = users[p].is_banned
    /\ out'.sent = {}

\* C8: an admin's ban of a user who is already banned gets the warning reply
\* and writes nothing: the target's row and every is_banned flag are
\* unchanged and nothing is sent to the target; an unban of a user who is not
\* banned likewise.
C8_BanIdempotent ==
    [][/\ (AdminCommandOn("ban") /\ users[out'.arg].is_banned)
            => (out'.replies = <<"already_banned">> /\ TargetUntouched)
       /\ (AdminCommandOn("unban") /\ ~users[out'.arg].is_banned)
            => (out'.replies = <<"not_banned">> /\ TargetUntouched)]_vars

\* C8 witness: an admin has banned a user who was banned already.
C8_Witness ==
    /\ out.event = "message"
    /\ out.token = "ban"
    /\ out.replies = <<"already_banned">>
    /\ users[out.arg].is_banned

\* C9: an admin's ban of an existing non-admin user X sets X.is_banned; while
\* it is set every message of X gets the banned reply and leaves it set; only
\* an admin's unban of X clears it; and a message of X while it is clear is
\* routed, not rejected.
C9_BanUntilUnban ==
    [][\A x \in Phones :
        /\ (AdminCommandOn("ban") /\ out'.arg = x /\ ~users[x].is_admin)
              => users'[x].is_banned
        /\ (users[x].is_banned /\ out'.event = "message" /\ out'.sender = x)
              => (out'.replies = <<"banned">> /\ users'[x].is_banned)
        /\ (users[x].is_banned /\ ~users'[x].is_banned)
              => (AdminCommandOn("unban") /\ out'.arg = x
                    /\ out'.replies = <<"unban_ok">>)
        /\ (~users[x].is_banned /\ out'.event = "message" /\ out'.sender = x)
              => (out'.route # "BANNED_REJECTED" /\ "banned" \notin
                    {out'.replies[i] : i \in DOMAIN out'.replies})]_vars

\* C9 witness: a banned user has sent a plain text and got the banned reply.
C9_Witness ==
    /\ out.event = "message"
    /\ out.token = None
    /\ out.route = "BANNED_REJECTED"
    /\ users[out.sender].is_banned
    /\ out.replies = <<"banned">>

\* C10: no user is both admin and banned, and an admin's ban command naming
\* an admin is refused.
C10_AdminNeverBanned ==
    /\ \A p \in Phones : ~(users[p].is_admin /\ users[p].is_banned)
    /\ (out.event = "message" /\ out.token = "ban" /\ out.route = "COMMAND"
          /\ users[out.sender].is_admin
          /\ out.arg \in Phones /\ users[out.arg].is_admin)
        => out.replies = <<"cannot_ban_admin">>

\* C10 witness: an admin's ban of an admin has been refused.
C10_Witness ==
    /\ out.event = "message"
    /\ out.token = "ban"
    /\ out.replies = <<"cannot_ban_admin">>
    /\ users[out.arg].is_admin

\* C11: ban and unban resolve their target by phone number or by display
\* name: an admin's ban or unban whose argument is the display name of an
\* existing user finds that user and does not answer 'not found'.
C11_LookupByName ==
    [][(/\ out'.event = "message"
        /\ out'.token \in {"ban", "unban"}
        /\ out'.route = "COMMAND"
        /\ users'[out'.sender].is_admin
        /\ \E p \in Phones : users[p].exists /\ users[p].name = out'.arg)
          => out'.replies # <<"not_found">>]_vars

-----------------------------------------------------------------------------
(* Claims about the daily statistics *)

\* How many BotStats rows there are of a metric and a date.
StatsCount(rows, metric_name, d) ==
    Cardinality({i \in DOMAIN rows : rows[i].metric_name = metric_name /\ rows[i].date = d})

\* C12: after a call of record_daily_stats the table holds exactly one row of
\* each of the five metrics for the date of the call, and a call on a date
\* that has its rows already writes nothing.
C12_DailyStatsIdempotent ==
    [][stats_call'.seq # stats_call.seq
          => /\ \A i \in DOMAIN Metrics : StatsCount(bot_stats', Metrics[i], today) = 1
             /\ ExistingStats(bot_stats, today) => bot_stats' = bot_stats]_vars

\* C12 witness: the last call found the five rows of its date and skipped.
C12_Witness ==
    /\ stats_call.result = "skipped"
    /\ stats_call.date = today
    /\ \A i \in DOMAIN Metrics : StatsCount(bot_stats, Metrics[i], today) = 1

\* C13: the BotStats table holds at most one row per metric name and date,
\* also when calls of record_daily_stats for one date interleave.
C13_OneRowPerMetricAndDate ==
    \A i \in DOMAIN Metrics, d \in 0..MaxDate : StatsCount(bot_stats, Metrics[i], d) <= 1

-----------------------------------------------------------------------------
(* Claims about the replies of the AI pipeline *)

\* the reply handle_file_message builds (ai.py:149)
FileResponse == FileHeader \o ai_call.response

\* the messages handle_file_message sent after its processing notice
FileAnswer == Tail(reply_texts)

IsPrefix(s, t) == Len(s) <= Len(t) /\ SubSeq(t, 1, Len(s)) = s

EndsWithMarker(m) ==
    /\ Len(m) >= Len(TruncationMarker)
    /\ SubSeq(m, Len(m) - Len(TruncationMarker) + 1, Len(m)) = TruncationMarker

\* the text a summary carries, without its truncation marker
SummaryBody(m) == SubSeq(m, 1, Len(m) - Len(TruncationMarker))

\* the text a follow-up carries, without its part header
PartBody(m) == SubSeq(m, Len(PartHeader(1)) + 1, Len(m))

\* a long file reply has been sent
LongFileReplySent ==
    ai_call.kind = "file" /\ ai_call.called /\ Len(FileResponse) > TransportLimit

\* how many chunks n characters fill
NumChunks(n) == (n + ChunkSize - 1) \div ChunkSize

\* C14: a long file reply is sent as a summary ending with the continuation
\* marker, followed by numbered follow-ups of at most ChunkSize characters of
\* reply text each, as many as the content after the summary fills chunks,
\* capped at ChunkCap.
C14_FollowUpsUpToCap ==
    LongFileReplySent
        => /\ Len(FileAnswer) >= 1
           /\ EndsWithMarker(FileAnswer[1])
           /\ \A k \in 2..Len(FileAnswer) :
                 /\ IsPrefix(PartHeader(k - 1), FileAnswer[k])
                 /\ Len(PartBody(FileAnswer[k])) <= ChunkSize
           /\ Len(FileAnswer) - 1 =
                 Min(ChunkCap,
                     NumChunks(Len(FileResponse) - Len(SummaryBody(FileAnswer[1]))))

RECURSIVE PartBodies(_, _)
PartBodies(msgs, k) ==
    IF k > Len(msgs) THEN <<>> ELSE PartBody(msgs[k]) \o PartBodies(msgs, k + 1)

\* C15: the text of the summary followed by the texts of the follow-ups in
\* order is a prefix of the reply.
C15_ChunksArePrefix ==
    LongFileReplySent
        => IsPrefix(SummaryBody(FileAnswer[1]) \o PartBodies(FileAnswer, 2), FileResponse)

\* C16: every message handed to reply_text for a chat, image or file reply
\* has at most TransportLimit characters.
C16_WithinTransportLimit ==
    \A k \in DOMAIN reply_texts : Len(reply_texts[k]) <= TransportLimit

-----------------------------------------------------------------------------
(* Claims about the AI calls *)

LastRow == ai_requests[Len(ai_requests)]

RequestType(kind) ==
    CASE kind = "chat" -> "chat"
      [] kind = "image" -> "image_analysis"
      [] kind = "file" -> "file_analysis"

\* C17: no call of chat_response, analyze_image or analyze_file_content
\* raises; when the backend call faults the function returns its fixed
\* fallback string, and the handler logs that string in an AIRequest row of
\* the user and sends it the way it sends a backend text.
C17_FallbackContract ==
    ai_call.called
        => /\ ~ai_call.raised
           /\ ai_fault
                => /\ ai_call.response = FaultText(ai_call.kind)
                   /\ Len(ai_requests) >= 1
                   /\ LastRow.user_id = ai_call.user
                   /\ LastRow.request_type = RequestType(ai_call.kind)
                   /\ LastRow.response = Slice(FaultText(ai_call.kind), 0, ResponseCap)
                   /\ reply_texts[Len(reply_texts)] =
                         CASE ai_call.kind = "chat" -> FaultText("chat")
                           [] ai_call.kind = "image" -> ImageHeader \o FaultText("image")
                           [] ai_call.kind = "file" -> FileHeader \o FaultText("file")

\* C17 witness: the backend faulted during a chat and the user got the
\* fallback string.
C17_Witness ==
    /\ ai_call.called
    /\ ai_call.kind = "chat"
    /\ ai_fault
    /\ reply_texts = <<<<"Thinking...">>, FaultText("chat")>>

\* C18: a handler that calls the backend appends exactly one AIRequest row,
\* of the requesting user and the request's type, whose prompt and response
\* are the prefixes of at most PromptCap and ResponseCap characters of the
\* prompt and of the text the call gave, a fallback string included; no step
\* changes or removes a row that is in the table.
C18_OneTruncatedRowPerCall ==
    [][/\ IsPrefix(ai_requests, ai_requests')
       /\ ai_call'.called
            => /\ Len(ai_requests') = Len(ai_requests) + 1
               /\ LET row == ai_requests'[Len(ai_requests')]
                  IN  /\ row.user_id = ai_call'.user
                      /\ row.request_type = RequestType(ai_call'.kind)
                      /\ IsPrefix(row.prompt, ai_call'.prompt)
                      /\ Len(row.prompt) = Min(Len(ai_call'.prompt), PromptCap)
                      /\ IsPrefix(row.response, ai_call'.response)
                      /\ Len(row.response) = Min(Len(ai_call'.response), ResponseCap)]_vars

\* C18 witness: a row was added after an earlier one, with a prompt and a
\* response that were both cut.
C18_Witness ==
    /\ ai_call.called
    /\ Len(ai_requests) = 2
    /\ ai_requests[1] = EarlierRow
    /\ Len(ai_call.prompt) > PromptCap
    /\ Len(ai_call.response) > ResponseCap
    /\ Len(LastRow.prompt) = PromptCap
    /\ Len(LastRow.response) = ResponseCap

\* C19: whenever the extraction of a downloaded file fails (the file is too
\* large, process_file raises, or a per-format extractor fails to read it),
\* the text returned starts with the failure marker, the handler makes no AI
\* call, adds no AIRequest row and relays the text as it is.
C19_ExtractionFailureShortCircuits ==
    [][(ai_call'.kind = "file"
          /\ extraction \in {"too_large", "process_error", "extractor_error"})
          => /\ StartsWithMarker(ProcessFile(extraction))
             /\ ~ai_call'.called
             /\ ai_requests' = ai_requests
             /\ reply_texts'[Len(reply_texts')] = ProcessFile(extraction)]_vars

\* The class the routing rules give a message: the ban first, then the
\* command prefix, then the content type, a document counting as a file only
\* when its extension is supported.
ClassOf(banned, type, media, token) ==
    IF banned THEN "BANNED_REJECTED"
    ELSE IF token # None THEN "COMMAND"
    ELSE IF type = "text" THEN "AI_TEXT"
    ELSE IF type = "image" THEN "AI_IMAGE"
    ELSE IF type = "document" /\ media # "unsupported" THEN "AI_FILE"
    ELSE "UNSUPPORTED"

\* C20: every inbound message reaches the one router state its class names
\* (banned sender, command, plain text, image, document with a supported
\* extension, anything else), and a message of the last class, a document
\* with an unsupported extension included, gets the generic 'send text or
\* use help' reply and reaches no AI handler.
C20_RoutingClassification ==
    [][out'.event = "message"
          => LET class == ClassOf(users[out'.sender].is_banned, out'.type,
                                  out'.media, out'.token)
             IN  /\ out'.route = class
                 /\ class = "UNSUPPORTED"
                      => /\ out'.replies = <<"send_text_or_help">>
                         /\ out'.handlers = {}]_vars

\* delivery d's message has a row in the Message table
Logged(d) == \E r \in messages : r.message_id = delivery[d].id

\* delivery d is past log_message, which found the sender not banned and whose
\* database calls worked
PastLogMessage(d) ==
    /\ delivery[d].pc \notin {"idle", "lookup", "log_lookup", "log_insert"}
    /\ ~delivery[d].banned_at_check
    /\ ~delivery[d].banned_at_log
    /\ ~delivery[d].db_fault

\* C21: a message whose sender handle_message and log_message found not banned
\* has a Message row from the moment log_message returns, whatever the
\* dispatch does afterwards (a command, an AI reply, the generic reply, a
\* handler or a reply that raises); and no row is added by a delivery that
\* found its sender banned.
C21_AuditRowUnlessBanned ==
    [][/\ \A d \in Deliveries : PastLogMessage(d)' => Logged(d)'
       /\ messages' # messages
            => \E d \in Deliveries :
                  /\ delivery[d].pc = "log_insert"
                  /\ delivery'[d].pc # "log_insert"
                  /\ ~delivery[d].banned_at_check
                  /\ ~delivery[d].banned_at_log]_vars

\* C21 witness: a command whose handler raised and whose first error reply
\* raised too has ended, and its message has a row.
C21_Witness ==
    \E d \in Deliveries :
        /\ delivery[d].pc = "done"
        /\ delivery[d].started = "command"
        /\ delivery[d].faults = MaxFaults
        /\ PastLogMessage(d)
        /\ Logged(d)

\* C22: whatever the interleaving of the deliveries, a redelivery of the
\* same identifier included, the Message table holds at most one row per
\* message_id, and a row once written stays as it is.
C22_LoggedAtMostOnce ==
    [][/\ \A r1, r2 \in messages' : r1.message_id = r2.message_id => r1 = r2
       /\ messages \subseteq messages']_vars

\* C22 witness: two deliveries of one identifier have both gone through
\* log_message with the sender not banned, and the table holds one row.
C22_Witness ==
    /\ \A d \in Deliveries : delivery[d].pc = "done" /\ PastLogMessage(d)
    /\ delivery["d1"].id = delivery["d2"].id
    /\ Cardinality(messages) = 1

\* C23: every call of handle_message that has ended attempted at least one
\* reply to the sender, and no exception left it, whichever database calls,
\* handlers and replies raised.
C23_NoFaultWithoutReply ==
    \A d \in Deliveries :
        delivery[d].pc = "done" => (delivery[d].attempted /\ ~delivery[d].escaped)

\* C26: whatever the interleaving of an admin's ban of the sender with the
\* handling of the sender's message, no command handler and no AI backend
\* call starts while the committed is_banned flag of the sender is true.
C26_NoDispatchAfterBan ==
    \A d \in Deliveries : delivery[d].started # None => ~delivery[d].started_banned

\* C24: a row is created with is_admin true exactly when its phone number is
\* the configured admin number, and no message, command or button callback
\* changes the is_admin of a row that exists.
C24_AdminFixedAtCreation ==
    [][\A p \in Phones :
        /\ users[p].exists => users'[p].is_admin = users[p].is_admin
        /\ (~users[p].exists /\ users'[p].exists)
              => users'[p].is_admin = (p = AdminPhone)]_vars

\* C24 witness: the admin has unbanned a user; the admin is still the admin
\* and the user is not.
C24_Witness ==
    /\ out.event = "message"
    /\ out.token = "unban"
    /\ out.replies = <<"unban_ok">>
    /\ users[out.sender].is_admin
    /\ users[out.arg].exists
    /\ ~users[out.arg].is_admin

\* the phones the last event sent a broadcast to
BroadcastRecipients(o) == {m.to : m \in {x \in o.sent : x.kind = "broadcast"}}

\* C27: a broadcast by an admin sends once to every user who is not banned
\* and is not the sender, to no banned user and not to the sender, goes on
\* after a send that fails, and reports sent_count + failed_count equal to
\* the number of users it sent to.
C27_BroadcastDelivery ==
    [][(out'.event = "message" /\ out'.token = "broadcast"
          /\ "handle_broadcast" \in out'.handlers /\ out'.arg # None)
          => LET targets == {p \in Phones : users'[p].exists /\ ~users'[p].is_banned}
                                \ {out'.sender}
             IN  /\ out'.replies = <<"broadcast_complete">>
                 /\ BroadcastRecipients(out') = targets
                 /\ out'.sent = {[to |-> p, kind |-> "broadcast"] : p \in targets}
                 /\ out'.sent_count + out'.failed_count = Cardinality(targets)]_vars

\* C27 witness: a broadcast went to one user and failed for another.
C27_Witness ==
    /\ out.token = "broadcast"
    /\ out.replies = <<"broadcast_complete">>
    /\ out.sent_count = 1
    /\ out.failed_count = 1
    /\ Cardinality(BroadcastRecipients(out)) = 2

C25_QueueTimeOrdered ==
    \A u \in WaIds :
        LET q == rate_limit_storage[u]
        IN  \A i, j \in DOMAIN q : i < j => q[i] <= q[j]

\* C29: a retry wrapper with max_attempts >= 1 calls func at most
\* max_attempts times; it returns the value of the first call that succeeds
\* and calls no more; it sleeps once after each failed attempt but the last,
\* the k-th sleep lasting delay * backoff_factor^(k-1); and after
\* max_attempts failures it raises the exception of the last attempt.
C29_RetryContract ==
    LET r == retry_call
    IN  r.pc # "none" =>
          /\ r.calls <= r.max_attempts
          /\ \A k \in DOMAIN r.sleeps : r.sleeps[k] = r.delay * Pow(r.backoff_factor, k - 1)
          /\ r.pc = "call" => Len(r.sleeps) = r.calls
          /\ r.pc = "returned" => (r.result = r.calls /\ Len(r.sleeps) = r.calls - 1)
          /\ r.pc = "raised" => /\ r.calls = r.max_attempts
                                /\ r.last_exception = r.max_attempts
                                /\ Len(r.sleeps) = r.max_attempts - 1
          /\ r.pc \in {"returned", "raised"} => ~(ENABLED (RetryCallReturns \/ RetryCallRaises))

\* C29 witness: three attempts with delay 1 and factor 2 have all failed,
\* after sleeps of 1 and 2.
C29_Witness ==
    /\ retry_call.pc = "raised"
    /\ retry_call.max_attempts = 3
    /\ retry_call.sleeps = <<1, 2>>
    /\ retry_call.last_exception = 3

\* C30: under any interleaving of calls with one key, the wrapper of
\* cache_result returns a stored result only when the entry's age is less
\* than ttl_seconds, stores nothing when func raises, and never fails on its
\* own reads and deletes of the shared cache map.
C30_CacheContract ==
    [][\A t \in Threads :
        /\ cache_call'[t].outcome = "hit" => cache_call'[t].age < TtlSeconds
        /\ (cache_call'[t].outcome = "func_raised" /\ cache_call[t].outcome # "func_raised")
              => cache' = cache
        /\ cache_call'[t].outcome # "error"]_vars

=============================================================================
